---- MODULE Spec2Model ----
(***************************************************************************)
(* Duplicate media finder: scan_media.py (scanner, exact grouper,          *)
(* near-duplicate clusterer, relocator) and app.py (scan, move-file and    *)
(* undo-move endpoints), modelled over an explicit file system.            *)
(*                                                                         *)
(* Strings are sequences of one-character strings, so that formatting      *)
(* (f"{stem}_{counter}{suffix}"), Path.stem / Path.suffix, and Python's    *)
(* string ordering (sorted) are computed rather than assumed.  A path is   *)
(* the sequence of its components; every path is absolute.                 *)
(***************************************************************************)
EXTENDS Integers, Sequences, FiniteSets, TLC

(***************************************************************************)
(* Strings                                                                 *)
(***************************************************************************)

\* The characters in use, in code-point order (Python compares str by code point).
Alphabet ==
    << ".", "/", "0", "1", "2", "3", "4", "5", "6", "7", "8", "9",
       "G", "J", "N", "P", "_",
       "a", "b", "c", "d", "e", "g", "i", "j", "l", "n", "p", "r", "s", "t",
       "u", "v", "w", "x", "z" >>

Ord(c) == CHOOSE i \in 1..Len(Alphabet) : Alphabet[i] = c

\* str.__lt__ : lexicographic by code point, a proper prefix is smaller.
RECURSIVE StrLess(_, _)
StrLess(s, t) ==
    IF t = << >> THEN FALSE
    ELSE IF s = << >> THEN TRUE
    ELSE IF Head(s) = Head(t) THEN StrLess(Tail(s), Tail(t))
    ELSE Ord(Head(s)) < Ord(Head(t))

\* str.lower() on the characters in use.
LowerChar(c) ==
    CASE c = "G" -> "g"
      [] c = "J" -> "j"
      [] c = "N" -> "n"
      [] c = "P" -> "p"
      [] OTHER -> c

\* Mutation: the extension is compared as it is spelled.
Unlowered(s) == s

Lower(s) == [i \in 1..Len(s) |-> LowerChar(s[i])]

Digits == << "0", "1", "2", "3", "4", "5", "6", "7", "8", "9" >>

\* str(counter): decimal digits of a natural number.
RECURSIVE Str(_)
Str(n) ==
    IF n < 10 THEN << Digits[n + 1] >>
    ELSE Str(n \div 10) \o << Digits[(n % 10) + 1] >>

\* F applied to the value of v: v is evaluated once, as "x = v" does in the code.
Bind(v, F(_)) == CHOOSE r \in { F(x) : x \in {v} } : TRUE

\* Python's None and the empty string: both false in "if not x".
None == << >>

(***************************************************************************)
(* pathlib                                                                 *)
(***************************************************************************)

\* str(path): components joined with "/", with a leading "/".
RECURSIVE PathStr(_)
PathStr(p) ==
    IF p = << >> THEN << >>
    ELSE << "/" >> \o Head(p) \o PathStr(Tail(p))

Parent(p) == SubSeq(p, 1, Len(p) - 1)
Name(p) == p[Len(p)]
Join(p, q) == p \o q

\* Position of the last "." in a name, 0 when there is none (str.rfind).
LastDot(n) ==
    LET dots == { i \in 1..Len(n) : n[i] = "." }
    IN IF dots = {} THEN 0
       ELSE CHOOSE i \in dots : \A j \in dots : j <= i

\* Path.suffix: from the last dot, unless that dot leads or ends the name.
Suffix(p) ==
    LET n == Name(p)
        i == LastDot(n)
    IN IF i > 1 /\ i < Len(n) THEN SubSeq(n, i, Len(n)) ELSE << >>

\* Path.stem: the name without its suffix.
Stem(p) ==
    LET n == Name(p)
        i == LastDot(n)
    IN IF i > 1 /\ i < Len(n) THEN SubSeq(n, 1, i - 1) ELSE n

IsPrefix(r, p) == Len(r) <= Len(p) /\ SubSeq(p, 1, Len(r)) = r

\* Path.relative_to(root); raises ValueError when root is no prefix of p.
RelativeTo(p, r) == SubSeq(p, Len(r) + 1, Len(p))

(***************************************************************************)
(* The file system                                                         *)
(*                                                                         *)
(* fs maps every existing path to its entry: a regular file with its       *)
(* content, a directory, or a symbolic link to a file path.  The root      *)
(* directory << >> always exists and is not stored.                        *)
(***************************************************************************)

File(c) == [kind |-> "file", content |-> c, target |-> << >>]
Dir == [kind |-> "dir", content |-> 0, target |-> << >>]
Link(t) == [kind |-> "link", content |-> 0, target |-> t]

Has(f, p) == p \in DOMAIN f

\* Path.resolve(): follow symbolic links (non-strict: a missing path resolves to itself).
RECURSIVE Resolve(_, _)
Resolve(f, p) ==
    IF Has(f, p) /\ f[p].kind = "link" THEN Resolve(f, f[p].target) ELSE p

\* Path.exists(), Path.is_file(), Path.is_dir(): all follow symbolic links.
Exists(f, p) == p = << >> \/ Has(f, Resolve(f, p))
IsFile(f, p) == Has(f, Resolve(f, p)) /\ f[Resolve(f, p)].kind = "file"
IsDir(f, p) == p = << >> \/ (Has(f, Resolve(f, p)) /\ f[Resolve(f, p)].kind = "dir")

Prefixes(p) == { SubSeq(p, 1, k) : k \in 1..Len(p) }

\* Path.mkdir(parents=True, exist_ok=True) raises when a component exists and is no directory.
MkdirOk(f, p) == \A q \in Prefixes(p) : ~Has(f, q) \/ IsDir(f, q)

MkdirParents(f, p) ==
    [q \in DOMAIN f \cup Prefixes(p) |-> IF q \in DOMAIN f THEN f[q] ELSE Dir]

\* Mutation: the file is copied to dst and the source is left behind.
RenameKeepingSource(f, src, dst) ==
    [q \in DOMAIN f \cup {dst} |-> IF q = dst THEN f[src] ELSE f[q]]

\* os.rename(src, dst): dst takes over the entry of src, replacing any file or link there.
Rename(f, src, dst) ==
    [q \in (DOMAIN f \ {src}) \cup {dst} |-> IF q = dst THEN f[src] ELSE f[q]]

\* shutil.move(src, dst).  A destination that is a directory receives the file under
\* its own name (shutil.Error if that name is taken); otherwise the file is renamed
\* onto dst, or copied over it and unlinked when the rename is refused.
\* lk is the set of paths the process may not move (PermissionError).
ShutilMove(f, lk, src, dst) ==
    LET real_dst == IF IsDir(f, dst) THEN Join(dst, << Name(src) >>) ELSE dst
    IN IF IsDir(f, dst) /\ Exists(f, real_dst)
         THEN [ok |-> FALSE, exc |-> "OSError", fs |-> f]
       ELSE IF src \in lk
         THEN [ok |-> FALSE, exc |-> "PermissionError", fs |-> f]
       ELSE IF ~IsDir(f, Parent(real_dst))
         THEN [ok |-> FALSE, exc |-> "OSError", fs |-> f]
       ELSE [ok |-> TRUE, exc |-> "", fs |-> Rename(f, src, real_dst)]

(***************************************************************************)
(* Collision handling shared by move_duplicates and move_file              *)
(***************************************************************************)

\* f"{stem}_{counter}{suffix}"
SuffixedName(stem, counter, suffix) == stem \o << "_" >> \o Str(counter) \o suffix

\* Mutation: the counter is appended to the stem of the candidate just tried.
RECURSIVE FreeNameRestemmed(_, _, _, _, _)
FreeNameRestemmed(f, dfp, stem, suffix, counter) ==
    IF Exists(f, dfp)
      THEN FreeNameRestemmed(f, Join(Parent(dfp),
                                     << SuffixedName(Stem(dfp), counter, suffix) >>),
                             stem, suffix, counter + 1)
      ELSE dfp

\* The while loop: stem and suffix are those of the first target; the candidate is
\* replaced by parent / stem_counter+suffix until a path that does not exist is met.
RECURSIVE FreeName(_, _, _, _, _)
FreeName(f, dfp, stem, suffix, counter) ==
    IF Exists(f, dfp)
      THEN FreeName(f, Join(Parent(dfp), << SuffixedName(stem, counter, suffix) >>),
                    stem, suffix, counter + 1)
      ELSE dfp

\* Mutation: the target is taken as it is, without the existence check.
ResolveConflictUnchecked(f, dfp) == dfp

\* "Handle filename conflicts by appending _1, _2, etc."
ResolveConflict(f, dfp) ==
    IF Exists(f, dfp) THEN FreeName(f, dfp, Stem(dfp), Suffix(dfp), 1) ELSE dfp

\* Mutation: every file goes directly under the destination, by name only.
DestinationByName(source_path, root_path, destination_path) ==
    Join(destination_path, << Name(source_path) >>)

\* Where a file is to go: destination / relative path, or destination / name
\* for a file outside the root (ValueError of relative_to).
DestinationFor(source_path, root_path, destination_path) ==
    IF IsPrefix(root_path, source_path)
      THEN Join(destination_path, RelativeTo(source_path, root_path))
      ELSE Join(destination_path, << Name(source_path) >>)

(***************************************************************************)
(* scan_media.py: classification and hashing                               *)
(***************************************************************************)

IMAGE_EXTENSIONS ==
    { << ".", "j", "p", "g" >>, << ".", "j", "p", "e", "g" >>, << ".", "p", "n", "g" >>,
      << ".", "g", "i", "f" >>, << ".", "w", "e", "b", "p" >> }

VIDEO_EXTENSIONS ==
    { << ".", "m", "p", "4" >>, << ".", "m", "o", "v" >>, << ".", "m", "k", "v" >>,
      << ".", "a", "v", "i" >> }

get_file_type(file_path) ==
    LET ext == Lower(Suffix(file_path))
    IN IF ext \in IMAGE_EXTENSIONS THEN "image"
       ELSE IF ext \in VIDEO_EXTENSIONS THEN "video"
       ELSE "other"

\* hashlib.sha256(...).hexdigest(): one digest per byte content, no collisions modelled.
Sha256(c) == << "sha256", c >>

\* compute_file_hash: None when the file cannot be read.
compute_file_hash(f, unread, file_path) ==
    IF file_path \in unread \/ ~IsFile(f, file_path) THEN None
    ELSE Sha256(f[Resolve(f, file_path)].content)

\* Width of imagehash.average_hash (8 x 8 grid).
HashBits == 64

\* A fingerprint whose first k bits are set; two of them differ in |k1 - k2| bits.
Ones(k) == [i \in 1..HashBits |-> IF i <= k THEN 1 ELSE 0]

\* The picture in a file of the given content: its average hash, or None when
\* Pillow cannot decode it.
AverageHash(c) ==
    CASE c = 1 -> Ones(0)
      [] c = 2 -> Ones(40)
      [] c = 3 -> Ones(20)
      [] OTHER -> None

HexDigits ==
    << "0", "1", "2", "3", "4", "5", "6", "7", "8", "9", "a", "b", "c", "d", "e", "f" >>

\* str(phash): the bits, most significant first, as hexadecimal digits.
HashToHex(bits) ==
    [n \in 1..(Len(bits) \div 4) |->
       HexDigits[1 + 8 * bits[4 * n - 3] + 4 * bits[4 * n - 2]
                   + 2 * bits[4 * n - 1] + bits[4 * n]]]

\* The four bits of a hexadecimal digit.
DigitBits ==
    "0" :> << 0, 0, 0, 0 >> @@ "1" :> << 0, 0, 0, 1 >> @@ "2" :> << 0, 0, 1, 0 >> @@
    "3" :> << 0, 0, 1, 1 >> @@ "4" :> << 0, 1, 0, 0 >> @@ "5" :> << 0, 1, 0, 1 >> @@
    "6" :> << 0, 1, 1, 0 >> @@ "7" :> << 0, 1, 1, 1 >> @@ "8" :> << 1, 0, 0, 0 >> @@
    "9" :> << 1, 0, 0, 1 >> @@ "a" :> << 1, 0, 1, 0 >> @@ "b" :> << 1, 0, 1, 1 >> @@
    "c" :> << 1, 1, 0, 0 >> @@ "d" :> << 1, 1, 0, 1 >> @@ "e" :> << 1, 1, 1, 0 >> @@
    "f" :> << 1, 1, 1, 1 >>

RECURSIVE HexBits(_, _)
HexBits(hex, n) == IF n = 0 THEN << >> ELSE HexBits(hex, n - 1) \o DigitBits[hex[n]]

\* imagehash.hex_to_hash: the bits of a hexadecimal string; None when int(s, 16) raises.
HexToHash(hex) ==
    IF \E n \in 1..Len(hex) : hex[n] \notin DOMAIN DigitBits THEN None
    ELSE HexBits(hex, Len(hex))

\* compute_perceptual_hash: None when the library is missing or the image cannot be decoded.
compute_perceptual_hash(f, avail, file_path) ==
    IF ~avail \/ ~IsFile(f, file_path) THEN None
    ELSE Bind(AverageHash(f[Resolve(f, file_path)].content), LAMBDA phash :
           IF phash = None THEN None ELSE HashToHex(phash))

\* hamming_distance: << d >> for d differing bits; None when the library is missing
\* or the two hashes cannot be compared (hex_to_hash or the subtraction raises).
hamming_distance(avail, phash1, phash2) ==
    IF ~avail THEN None
    ELSE Bind(HexToHash(phash1), LAMBDA h1 :
           Bind(HexToHash(phash2), LAMBDA h2 :
             IF h1 = None \/ h2 = None \/ Len(h1) # Len(h2) THEN None
             ELSE << Cardinality({ i \in 1..Len(h1) : h1[i] # h2[i] }) >>))

(***************************************************************************)
(* scan_media.py: scan_directory                                           *)
(***************************************************************************)

\* All orders in which a finite set can be listed.
Orders(S) ==
    { q \in [1..Cardinality(S) -> S] : \A i, j \in 1..Cardinality(S) : q[i] = q[j] => i = j }

RECURSIVE ConcatFirst(_, _)
ConcatFirst(ss, k) == IF k = 0 THEN << >> ELSE ConcatFirst(ss, k - 1) \o ss[k]

Concat(ss) == Bind(ss, LAMBDA v : ConcatFirst(v, Len(v)))

Children(f, dir) == { p \in DOMAIN f : Len(p) = Len(dir) + 1 /\ Parent(p) = dir }

\* os.walk(top): top-down; in each directory the non-directory entries (links to
\* files included) and then the sub-directories, each list in the order the
\* operating system returns it, which is arbitrary.  Links are not followed.
RECURSIVE Walks(_, _)
Walks(f, dir) ==
    LET files == { p \in Children(f, dir) : f[p].kind # "dir" }
        dirs == { p \in Children(f, dir) : f[p].kind = "dir" }
    IN { fo \o Concat([i \in 1..Len(do) |-> sub[do[i]]]) :
           fo \in Orders(files),
           do \in Orders(dirs),
           sub \in { g \in [dirs -> UNION { Walks(f, d) : d \in dirs }] :
                        \A d \in dirs : g[d] \in Walks(f, d) } }

\* st_size of a file of the given content.
StSize(c) == c

\* What the loop body appends for one walked file: one record, or nothing.
\* stat() raises OSError on a dangling link; a file that cannot be hashed is dropped.
ScanFile(f, unread, avail, file_path) ==
    LET file_type == get_file_type(file_path)
        hash_value == compute_file_hash(f, unread, file_path)
        phash_value == IF file_type = "image"
                         THEN compute_perceptual_hash(f, avail, file_path)
                         ELSE None
    IN IF file_type \notin {"image", "video"} THEN << >>
       ELSE IF ~Exists(f, file_path) THEN << >>
       ELSE IF hash_value = None THEN << >>
       ELSE << [file_path |-> file_path,
                file_size_bytes |-> StSize(f[Resolve(f, file_path)].content),
                file_type |-> file_type,
                hash |-> hash_value,
                phash |-> phash_value] >>

\* Mutation: a root that is missing or no directory is scanned as an empty one.
ScanDirectoryUnchecked(f, unread, avail, directory_path) ==
    IF ~Exists(f, directory_path) \/ ~IsDir(f, directory_path)
      THEN { [exit |-> FALSE, files_data |-> << >>] }
      ELSE { [exit |-> FALSE,
              files_data |-> Concat([i \in 1..Len(w) |-> ScanFile(f, unread, avail, w[i])])] :
                w \in Walks(f, directory_path) }

\* scan_directory: sys.exit(1) for a root that is missing or no directory, else
\* the records of the walked files, in walk order.
scan_directory(f, unread, avail, directory_path) ==
    IF ~Exists(f, directory_path) \/ ~IsDir(f, directory_path)
      THEN { [exit |-> TRUE, files_data |-> << >>] }
      ELSE { [exit |-> FALSE,
              files_data |-> Concat([i \in 1..Len(w) |-> ScanFile(f, unread, avail, w[i])])] :
                w \in Walks(f, directory_path) }

(***************************************************************************)
(* scan_media.py: exact grouping                                           *)
(***************************************************************************)

\* A dict is a sequence of entries in insertion order.
KeyIndex(dict, key) ==
    LET hits == { i \in 1..Len(dict) : dict[i].key = key }
    IN IF hits = {} THEN 0 ELSE CHOOSE i \in hits : TRUE

\* hash_to_files after the first k records: defaultdict(list), appended in input order.
RECURSIVE HashToFiles(_, _)
HashToFiles(files_data, k) ==
    IF k = 0 THEN << >>
    ELSE Bind(HashToFiles(files_data, k - 1), LAMBDA prev :
           LET i == KeyIndex(prev, files_data[k].hash)
           IN IF i = 0
                THEN Append(prev, [key |-> files_data[k].hash,
                                   paths |-> << files_data[k].file_path >>])
                ELSE [prev EXCEPT ![i].paths = Append(@, files_data[k].file_path)])

\* Mutation: hashes with a single file pass the filter too.
IsNonEmptyGroup(entry) == Len(entry.paths) > 0

\* len(paths) > 1
IsDuplicateGroup(entry) == Len(entry.paths) > 1

\* find_duplicates: the hashes with more than one file.
find_duplicates(files_data) ==
    SelectSeq(HashToFiles(files_data, Len(files_data)), IsDuplicateGroup)

\* hash_counts after the first k records: defaultdict(int), incremented per record.
RECURSIVE HashCounts(_, _)
HashCounts(files_data, k) ==
    IF k = 0 THEN << >>
    ELSE Bind(HashCounts(files_data, k - 1), LAMBDA prev :
           LET i == KeyIndex(prev, files_data[k].hash)
           IN IF i = 0
                THEN Append(prev, [key |-> files_data[k].hash, count |-> 1])
                ELSE [prev EXCEPT ![i].count = @ + 1])

\* add_duplicate_group_ids: the duplicate_group_id of every record.
add_duplicate_group_ids(files_data) ==
    Bind(HashCounts(files_data, Len(files_data)), LAMBDA hash_counts :
      [i \in 1..Len(files_data) |->
         hash_counts[KeyIndex(hash_counts, files_data[i].hash)].count])

(***************************************************************************)
(* scan_media.py: near-duplicate clustering                                *)
(***************************************************************************)

DefaultThreshold == 20

Unique == << "u", "n", "i", "q", "u", "e" >>

\* f"nd_group_{group_num}"
GroupLabel(group_num) == << "n", "d", "_", "g", "r", "o", "u", "p", "_" >> \o Str(group_num)

\* find(x): the root of x ...
RECURSIVE find(_, _)
find(parent, x) == IF parent[x] # x THEN find(parent, parent[x]) ELSE x

RECURSIVE OnPath(_, _)
OnPath(parent, x) == IF parent[x] # x THEN {x} \cup OnPath(parent, parent[x]) ELSE {x}

\* ... and the parent list it leaves: every node on the way points to the root.
compress(parent, x) ==
    [i \in 1..Len(parent) |-> IF i \in OnPath(parent, x) THEN find(parent, x) ELSE parent[i]]

\* Mutation: y itself, not its root, is hung under x.
UnionWithoutRoots(parent, x, y) == [parent EXCEPT ![y] = x]

\* union(x, y): the root of y is hung under the root of x.
union(parent, x, y) ==
    Bind(compress(parent, x), LAMBDA p1 :
      Bind(compress(p1, y), LAMBDA p2 :
        LET root_x == find(parent, x)
            root_y == find(p1, y)
        IN IF root_x # root_y THEN [p2 EXCEPT ![root_y] = root_x] ELSE p2))

\* The nested loops over pairs i < j, from pair (i, j) on.
RECURSIVE ComparePairs(_, _, _, _, _, _)
ComparePairs(avail, image_files, distance_threshold, parent, i, j) ==
    IF i > Len(image_files) THEN parent
    ELSE IF j > Len(image_files) \/ image_files[i].phash = None
      THEN ComparePairs(avail, image_files, distance_threshold, parent, i + 1, i + 2)
    ELSE LET distance == hamming_distance(avail, image_files[i].phash, image_files[j].phash)
             similar == /\ image_files[j].phash # None
                        /\ distance # None
                        /\ distance[1] <= distance_threshold
         IN Bind(IF similar THEN union(parent, i, j) ELSE parent, LAMBDA next_parent :
              ComparePairs(avail, image_files, distance_threshold, next_parent, i, j + 1))

\* Mutation: the groups are kept in the order of their root index.
GroupBySortedRoot(parent, k) ==
    LET roots == { find(parent, i) : i \in 1..k }
        Members(r) == { i \in 1..k : find(parent, i) = r }
        Ranked(S, m) == CHOOSE x \in S : Cardinality({ y \in S : y < x }) = m - 1
    IN [parent |-> [i \in 1..Len(parent) |-> find(parent, i)],
        groups |-> [m \in 1..Cardinality(roots) |->
                      LET r == Ranked(roots, m)
                      IN [key |-> r,
                          indices |-> [q \in 1..Cardinality(Members(r)) |->
                                         Ranked(Members(r), q)]]]]

\* groups[root].append(i) for i = 1..k: a dict root -> indices in insertion order.
RECURSIVE GroupByRoot(_, _)
GroupByRoot(parent, k) ==
    IF k = 0 THEN [parent |-> parent, groups |-> << >>]
    ELSE Bind(GroupByRoot(parent, k - 1), LAMBDA prev :
           LET root == find(prev.parent, k)
               pos == KeyIndex(prev.groups, root)
           IN [parent |-> compress(prev.parent, k),
               groups |-> IF pos = 0
                            THEN Append(prev.groups, [key |-> root, indices |-> << k >>])
                            ELSE [prev.groups EXCEPT ![pos].indices = Append(@, k)]])

IsImage(r) == r.file_type = "image"
IsFingerprinted(r) == r.file_type = "image" /\ r.phash # None

Paths(records_) == { records_[i].file_path : i \in 1..Len(records_) }

\* The labelling loop over groups.items(), after the first k groups: the next
\* group_num and the dict file_path -> label.
RECURSIVE AssignLabels(_, _, _)
AssignLabels(image_files, groups, k) ==
    IF k = 0 THEN [group_num |-> 1, labels |-> [p \in Paths(image_files) |-> Unique]]
    ELSE Bind(AssignLabels(image_files, groups, k - 1), LAMBDA prev :
           LET indices == groups[k].indices
               members == { image_files[indices[m]].file_path : m \in 1..Len(indices) }
           IN IF Len(indices) > 1
                THEN [group_num |-> prev.group_num + 1,
                      labels |-> [p \in Paths(image_files) |->
                                    IF p \in members THEN GroupLabel(prev.group_num)
                                    ELSE prev.labels[p]]]
                ELSE prev)

\* The body of find_near_duplicate_groups once image_files is known.
NearDuplicateLabels(avail, image_files, distance_threshold) ==
    LET n == Len(image_files)
    IN Bind(ComparePairs(avail, image_files, distance_threshold, [i \in 1..n |-> i], 1, 2),
            LAMBDA parent :
         Bind(GroupByRoot(parent, n).groups, LAMBDA groups :
           AssignLabels(image_files, groups, Len(groups)).labels))

\* find_near_duplicate_groups: a dict file_path -> near_duplicate_group_id.
find_near_duplicate_groups(avail, files_data, distance_threshold) ==
    IF ~avail THEN [p \in Paths(SelectSeq(files_data, IsImage)) |-> Unique]
    ELSE Bind(SelectSeq(files_data, IsFingerprinted), LAMBDA image_files :
           NearDuplicateLabels(avail, image_files, distance_threshold))

\* add_near_duplicate_group_ids: the near_duplicate_group_id of every record.
add_near_duplicate_group_ids(avail, files_data) ==
    Bind(find_near_duplicate_groups(avail, files_data, DefaultThreshold),
         LAMBDA near_duplicate_groups :
           [i \in 1..Len(files_data) |->
              IF files_data[i].file_type = "image"
                THEN IF files_data[i].file_path \in DOMAIN near_duplicate_groups
                       THEN near_duplicate_groups[files_data[i].file_path]
                       ELSE Unique
                ELSE None])

(***************************************************************************)
(* State                                                                   *)
(***************************************************************************)

VARIABLES
    fs,        \* the file system
    locked,    \* paths whose move the operating system refuses (PermissionError)
    unreadable, \* paths whose content cannot be read (IOError in compute_file_hash)
    available, \* PERCEPTUAL_HASH_AVAILABLE: Pillow and imagehash could be imported
    fs0,       \* the file system before the first operation
    records,   \* MoveRecords the caller retains from successful move_file responses
    last,      \* the last operation: its arguments, the file system before it, its result
    input_files, \* the record list handed to the grouper or the clusterer on its own
    threads,   \* the move_file requests being served at the same time, and how far each is
    nops       \* number of operations so far

vars ==
    << fs, locked, unreadable, available, fs0, records, last, input_files, threads,
       nops >>

\* What the file-system operations leave alone.
idle == << locked, unreadable, available, fs0, input_files, threads >>

DuplicatesReview ==
    << "d", "u", "p", "l", "i", "c", "a", "t", "e", "s", "_", "r", "e", "v", "i", "e", "w" >>

R == << << "r" >> >>
RS == << << "r" >>, << "s" >> >>
D == << DuplicatesReview >>

A_JPG == << "a", ".", "j", "p", "g" >>
B_JPG == << "b", ".", "j", "p", "g" >>
C_PNG == << "c", ".", "p", "n", "g" >>

MaxOps == 3

(***************************************************************************)
(* app.py: move_file and undo_move                                         *)
(***************************************************************************)

\* move_file: the response and the file system it leaves.
MoveFileOutcome(f, lk, file_path, destination_folder, root_directory) ==
    LET source_path == Resolve(f, file_path)
        destination_path == Resolve(f, destination_folder)
        root_path == Resolve(f, root_directory)
        target == DestinationFor(source_path, root_path, destination_path)
        fail(code, g) ==
            [status |-> code, destination |-> None, original_path |-> None, fs |-> g]
    IN IF file_path = None THEN fail(400, f)
       ELSE IF destination_folder = None THEN fail(400, f)
       ELSE IF root_directory = None THEN fail(400, f)
       ELSE IF ~Exists(f, source_path) THEN fail(404, f)
       ELSE IF ~IsFile(f, source_path) THEN fail(400, f)
       ELSE IF ~MkdirOk(f, Parent(target)) THEN fail(500, f)
       ELSE Bind(MkdirParents(f, Parent(target)), LAMBDA f1 :
              Bind(ResolveConflict(f1, target), LAMBDA destination_file_path :
                Bind(ShutilMove(f1, lk, source_path, destination_file_path), LAMBDA mv :
                  IF ~mv.ok
                    THEN fail(IF mv.exc = "PermissionError" THEN 403 ELSE 500, f1)
                    ELSE [status |-> 200, destination |-> destination_file_path,
                          original_path |-> source_path, fs |-> mv.fs])))

\* Mutation: the parent directories of the original path are made before the
\* destination file is looked at.
UndoMoveOutcomeEager(f, lk, destination_path, original_path) ==
    LET orig_file == Resolve(f, original_path)
        fail(code, g) == [status |-> code, original_path |-> None, fs |-> g]
    IN IF destination_path = None THEN fail(400, f)
       ELSE IF original_path = None THEN fail(400, f)
       ELSE IF ~MkdirOk(f, Parent(orig_file)) THEN fail(500, f)
       ELSE Bind(MkdirParents(f, Parent(orig_file)), LAMBDA f1 :
              LET dest_file == Resolve(f1, destination_path)
              IN IF ~Exists(f1, dest_file) THEN fail(404, f1)
                 ELSE IF ~IsFile(f1, dest_file) THEN fail(400, f1)
                 ELSE Bind(ShutilMove(f1, lk, dest_file, orig_file), LAMBDA mv :
                        IF ~mv.ok
                          THEN fail(IF mv.exc = "PermissionError" THEN 403 ELSE 500, f1)
                          ELSE [status |-> 200, original_path |-> orig_file,
                                fs |-> mv.fs]))

\* undo_move: the response and the file system it leaves.
UndoMoveOutcome(f, lk, destination_path, original_path) ==
    LET dest_file == Resolve(f, destination_path)
        orig_file == Resolve(f, original_path)
        fail(code, g) == [status |-> code, original_path |-> None, fs |-> g]
    IN IF destination_path = None THEN fail(400, f)
       ELSE IF original_path = None THEN fail(400, f)
       ELSE IF ~Exists(f, dest_file) THEN fail(404, f)
       ELSE IF ~IsFile(f, dest_file) THEN fail(400, f)
       ELSE IF ~MkdirOk(f, Parent(orig_file)) THEN fail(500, f)
       ELSE Bind(MkdirParents(f, Parent(orig_file)), LAMBDA f1 :
              Bind(ShutilMove(f1, lk, dest_file, orig_file), LAMBDA mv :
                IF ~mv.ok
                  THEN fail(IF mv.exc = "PermissionError" THEN 403 ELSE 500, f1)
                  ELSE [status |-> 200, original_path |-> orig_file, fs |-> mv.fs]))

\* Paths a client may name in a request: what exists and is no directory.
NonDirs(f) == { p \in DOMAIN f : f[p].kind # "dir" }

MoveFile(file_path, destination_folder, root_directory) ==
    /\ nops < MaxOps
    /\ \E out \in {MoveFileOutcome(fs, locked, file_path, destination_folder,
                                    root_directory)} :
          /\ fs' = out.fs
          /\ records' =
                IF out.status = 200
                  THEN records \cup {[destination_path |-> out.destination,
                                      original_path |-> out.original_path]}
                  ELSE records
          /\ last' = [op |-> "move_file", file_path |-> file_path,
                      destination_folder |-> destination_folder,
                      root_directory |-> root_directory, pre |-> fs,
                      status |-> out.status, destination |-> out.destination,
                      original_path |-> out.original_path]
    /\ nops' = nops + 1
    /\ UNCHANGED idle

UndoMove(destination_path, original_path) ==
    /\ nops < MaxOps
    /\ \E out \in {UndoMoveOutcome(fs, locked, destination_path, original_path)} :
          /\ fs' = out.fs
          /\ records' = records \ {[destination_path |-> destination_path,
                                    original_path |-> original_path]}
          /\ last' = [op |-> "undo_move", destination_path |-> destination_path,
                      original_path |-> original_path, pre |-> fs,
                      status |-> out.status, restored |-> out.original_path,
                      prev |-> IF last.op = "move_file" THEN last ELSE [op |-> last.op]]
    /\ nops' = nops + 1
    /\ UNCHANGED idle

(***************************************************************************)
(* scan_media.py: move_duplicates and main                                 *)
(***************************************************************************)

PathLess(p, q) == StrLess(PathStr(p), PathStr(q))

\* sorted(file_paths): ascending in str order (insertion into the sorted prefix).
RECURSIVE SortedPaths(_)
SortedPaths(file_paths) ==
    IF file_paths = << >> THEN << >>
    ELSE Bind(SortedPaths(Tail(file_paths)), LAMBDA rest :
           LET x == Head(file_paths)
               before == SelectSeq(rest, LAMBDA y : PathLess(y, x))
               after == SelectSeq(rest, LAMBDA y : ~PathLess(y, x))
           IN before \o << x >> \o after)

\* The body of "for duplicate_path in duplicate_paths" on the running state
\* st = [fs, moved, errors, log]; log lists the moves made, for the properties.
MoveDuplicate(st, lk, root_directory, destination_path, duplicate_path) ==
    LET f == st.fs
        source_path == Resolve(f, duplicate_path)
        target == DestinationFor(source_path, root_directory, destination_path)
        err(msg, g) ==
            [st EXCEPT !.fs = g,
                       !.errors = Append(@, [message |-> msg, path |-> duplicate_path])]
    IN IF ~Exists(f, source_path) THEN err("File not found", f)
       ELSE IF ~MkdirOk(f, Parent(target)) THEN err("File locked or error", f)
       ELSE Bind(MkdirParents(f, Parent(target)), LAMBDA f1 :
              Bind(ResolveConflict(f1, target), LAMBDA destination_file_path :
                Bind(ShutilMove(f1, lk, source_path, destination_file_path), LAMBDA mv :
                  IF ~mv.ok
                    THEN err(IF mv.exc = "PermissionError" THEN "Permission denied"
                             ELSE "File locked or error", f1)
                    ELSE [st EXCEPT !.fs = mv.fs,
                                    !.moved = @ + 1,
                                    !.log = Append(@, [path |-> duplicate_path,
                                                       source |-> source_path,
                                                       destination |-> destination_file_path,
                                                       before |-> f1])])))

\* Mutation: the loop over a group ends at the first error.
RECURSIVE MoveGroupStopping(_, _, _, _, _, _)
MoveGroupStopping(st, lk, root_directory, destination_path, duplicate_paths, k) ==
    IF k = 0 THEN st
    ELSE Bind(MoveGroupStopping(st, lk, root_directory, destination_path,
                                duplicate_paths, k - 1),
              LAMBDA prev :
                IF prev.errors # << >> THEN prev
                ELSE MoveDuplicate(prev, lk, root_directory, destination_path,
                                   duplicate_paths[k]))

\* The inner loop over sorted_paths[1:] of one group.
RECURSIVE MoveGroup(_, _, _, _, _, _)
MoveGroup(st, lk, root_directory, destination_path, duplicate_paths, k) ==
    IF k = 0 THEN st
    ELSE Bind(MoveGroup(st, lk, root_directory, destination_path, duplicate_paths, k - 1),
              LAMBDA prev :
                MoveDuplicate(prev, lk, root_directory, destination_path,
                              duplicate_paths[k]))

\* The outer loop over duplicates.items(), after the first k groups.
RECURSIVE MoveGroups(_, _, _, _, _, _)
MoveGroups(st, lk, root_directory, destination_path, duplicates, k) ==
    IF k = 0 THEN st
    ELSE Bind(MoveGroups(st, lk, root_directory, destination_path, duplicates, k - 1),
              LAMBDA prev :
                Bind(SortedPaths(duplicates[k].paths), LAMBDA sorted_paths :
                  LET original_path == Head(sorted_paths)
                      duplicate_paths == Tail(sorted_paths)
                  IN MoveGroup(prev, lk, root_directory, destination_path,
                               duplicate_paths, Len(duplicate_paths))))

\* move_duplicates: (num_duplicate_groups, num_duplicates_moved, destination_path,
\* errors) and the file system it leaves; raised when the destination folder
\* cannot be created.
move_duplicates(f, lk, duplicates, root_directory, destination_folder) ==
    LET root == Resolve(f, root_directory)
        destination_path ==
            IF destination_folder # None THEN Resolve(f, destination_folder)
            ELSE Join(Parent(root), << DuplicatesReview >>)
        start == [fs |-> IF ~Exists(f, destination_path)
                           THEN MkdirParents(f, destination_path) ELSE f,
                  moved |-> 0, errors |-> << >>, log |-> << >>]
    IN IF ~Exists(f, destination_path) /\ ~MkdirOk(f, destination_path)
         THEN [raised |-> TRUE, fs |-> f, num_duplicate_groups |-> 0,
               num_duplicates_moved |-> 0, destination_path |-> destination_path,
               errors |-> << >>, log |-> << >>]
         ELSE Bind(start, LAMBDA st0 :
                Bind(MoveGroups(st0, lk, root, destination_path, duplicates,
                                Len(duplicates)),
                     LAMBDA st :
                       [raised |-> FALSE, fs |-> st.fs,
                        num_duplicate_groups |-> Len(duplicates),
                        num_duplicates_moved |-> st.moved,
                        destination_path |-> destination_path,
                        errors |-> st.errors, log |-> st.log]))

NoMove ==
    [raised |-> FALSE, num_duplicate_groups |-> 0, num_duplicates_moved |-> 0,
     destination_path |-> None, errors |-> << >>, log |-> << >>]

\* What main() reports on standard output: nothing when it dies, the notice that
\* there is nothing to report, or the summary of print_summary.
NoReport == ""
NoFilesFound == "No image or video files found in the specified directory."
ScanSummary == "SCAN SUMMARY"

\* main(): scan, group, cluster, relocate.  One outcome per walk order.
MainOutcomes(f, lk, unread, avail, directory, destination) ==
    { Bind(find_duplicates(sc.files_data), LAMBDA duplicates :
        Bind(move_duplicates(f, lk, duplicates, directory, destination), LAMBDA mv :
          LET files_data == sc.files_data
              ran == ~sc.exit /\ files_data # << >> /\ duplicates # << >>
          IN [exit_code |-> IF sc.exit \/ (ran /\ mv.raised) THEN 1 ELSE 0,
              report |-> IF sc.exit \/ (ran /\ mv.raised) THEN NoReport
                         ELSE IF files_data = << >> THEN NoFilesFound
                         ELSE ScanSummary,
              files_data |-> files_data,
              duplicate_group_id |-> add_duplicate_group_ids(files_data),
              near_duplicate_group_id |-> add_near_duplicate_group_ids(avail, files_data),
              duplicates |-> duplicates,
              relocated |-> ran,
              move_results |-> IF ran THEN [x \in DOMAIN NoMove |-> mv[x]] ELSE NoMove,
              fs |-> IF ran THEN mv.fs ELSE f])) :
        sc \in scan_directory(f, unread, avail, directory) }

Main(directory, destination) ==
    /\ nops < MaxOps
    /\ \E out \in MainOutcomes(fs, locked, unreadable, available, directory, destination) :
          /\ fs' = out.fs
          /\ last' = [op |-> "main", directory |-> directory, destination |-> destination,
                      pre |-> fs, exit_code |-> out.exit_code, report |-> out.report,
                      files_data |-> out.files_data,
                      duplicate_group_id |-> out.duplicate_group_id,
                      near_duplicate_group_id |-> out.near_duplicate_group_id,
                      duplicates |-> out.duplicates,
                      relocated |-> out.relocated,
                      move_results |-> out.move_results]
    /\ nops' = nops + 1
    /\ UNCHANGED << idle, records >>

(***************************************************************************)
(* app.py: scan                                                            *)
(***************************************************************************)

\* hash_value[:16] + '...': the leading digits of the digest, taken to determine it.
DisplayHash(h) == << h, "..." >>

\* The 'duplicates' list of the response: hash, files and count of every group.
RECURSIVE DuplicateGroups(_, _)
DuplicateGroups(duplicates, k) ==
    IF k = 0 THEN << >>
    ELSE Bind(DuplicateGroups(duplicates, k - 1), LAMBDA prev :
           Append(prev, [hash |-> DisplayHash(duplicates[k].key),
                         files |-> duplicates[k].paths,
                         count |-> Len(duplicates[k].paths)]))

NoMediaFound == "No media files found in the specified directory."

\* scan: the JSON responses, one per walk order.  An error response has a status and
\* an 'error' text only; the response for no files has 'duplicates' and 'message' only.
ScanOutcomes(f, unread, avail, directory, destination_folder) ==
    LET fail(code) == [status |-> code, error |-> "error"]
    IN IF directory = None THEN { fail(400) }
       ELSE IF ~Exists(f, directory) THEN { fail(400) }
       ELSE IF ~IsDir(f, directory) THEN { fail(400) }
       ELSE { IF sc.exit THEN fail(500)
              ELSE IF sc.files_data = << >>
                THEN [status |-> 200, duplicates |-> << >>, message |-> NoMediaFound]
              ELSE Bind(DuplicateGroups(find_duplicates(sc.files_data),
                                        Len(find_duplicates(sc.files_data))),
                        LAMBDA groups :
                      [status |-> 200,
                       duplicates |-> groups,
                       total_files |-> Len(sc.files_data),
                       total_duplicate_groups |-> Len(groups),
                       destination_folder |->
                           IF destination_folder # None THEN destination_folder
                           ELSE Join(Parent(Resolve(f, directory)), << DuplicatesReview >>),
                       root_directory |-> directory]) :
                sc \in scan_directory(f, unread, avail, directory) }

Scan(directory, destination_folder) ==
    /\ nops < MaxOps
    /\ \E out \in ScanOutcomes(fs, unreadable, available, directory, destination_folder) :
          last' = [op |-> "scan", directory |-> directory, pre |-> fs, response |-> out]
    /\ nops' = nops + 1
    /\ UNCHANGED << idle, fs, records >>

(***************************************************************************)
(* Initial file systems                                                    *)
(***************************************************************************)

\* A file system from a set of <<path, entry>> pairs, with the directories above them.
Tree(items) ==
    LET paths == { it[1] : it \in items }
        dirs == UNION { Prefixes(Parent(p)) : p \in paths }
    IN [q \in paths \cup dirs |->
          IF q \in paths THEN (CHOOSE it \in items : it[1] = q)[2] ELSE Dir]

\* The initial situations: files under the scan root R (some byte-identical, one a
\* symbolic link, one only visually similar), files already in the review directory,
\* and a file the operating system refuses to move.
Scenarios ==
    LET ra == Join(R, << A_JPG >>)
        rb == Join(R, << B_JPG >>)
        rc == Join(R, << C_PNG >>)
        rsa == Join(RS, << A_JPG >>)
        da == Join(D, << A_JPG >>)
        sc(items, lk) ==
            [tree |-> Tree(items), locked |-> lk, unreadable |-> {}, available |-> TRUE]
    IN { \* a.jpg, its copy b.jpg, and c.png that only looks like them
         sc({<< ra, File(1) >>, << rb, File(1) >>, << rc, File(3) >>}, {}),
         \* b.jpg is a symbolic link to a.jpg
         sc({<< ra, File(1) >>, << rb, Link(ra) >>}, {}),
         \* two copies named a.jpg, and another a.jpg already under review
         sc({<< ra, File(1) >>, << rsa, File(1) >>, << da, File(2) >>}, {}),
         \* three copies, one of which may not be moved
         sc({<< ra, File(1) >>, << rb, File(1) >>, << rsa, File(1) >>}, {rb}),
         \* two groups of two
         sc({<< ra, File(1) >>, << rb, File(2) >>, << rsa, File(2) >>,
             << rc, File(1) >>}, {}),
         \* two different files with the same name
         sc({<< ra, File(1) >>, << rsa, File(2) >>}, {}),
         \* no duplicates
         sc({<< rb, File(2) >>, << rc, File(3) >>}, {}),
         \* no scan root
         sc({<< da, File(1) >>}, {}) }

Init ==
    /\ \E s \in Scenarios :
          /\ fs = s.tree
          /\ locked = s.locked
          /\ unreadable = s.unreadable
          /\ available = s.available
    /\ fs0 = fs
    /\ records = {}
    /\ last = [op |-> "none"]
    /\ input_files = << >>
    /\ threads = << >>
    /\ nops = 0

\* The (destination_folder, root_directory) pairs move_file is called with.
MoveRequests == { << D, R >>, << D, RS >>, << R, RS >> }

Next ==
    \/ \E p \in NonDirs(fs), q \in MoveRequests : MoveFile(p, q[1], q[2])
    \/ \E r \in records : UndoMove(r.destination_path, r.original_path)
    \/ \E dir \in {R, D} : Scan(dir, None)
    \/ \E dest \in {None, RS} : Main(R, dest)

Spec == Init /\ [][Next]_vars

(***************************************************************************)
(* The exact grouper and the clusterer on record lists                     *)
(***************************************************************************)

MaxRecords == 5

Lists(options) == UNION { [1..n -> options] : n \in 0..MaxRecords }

\* The i-th record of a list: the paths of a list are distinct, as those that
\* scan_directory collects are.
Record(i, file_type, content, phash) ==
    [file_path |-> Join(R, << Str(i) \o (IF file_type = "image"
                                           THEN << ".", "j", "p", "g" >>
                                           ELSE << ".", "a", "v", "i" >>) >>),
     file_size_bytes |-> StSize(content),
     file_type |-> file_type,
     hash |-> Sha256(content),
     phash |-> phash]

\* Lists of files of three contents.
GroupInputs ==
    { [i \in 1..Len(cs) |-> Record(i, "image", cs[i], None)] : cs \in Lists({1, 2, 3}) }

\* Fingerprints 0, 20, 40 and 64 bits from the all-zero one.
Fingerprints ==
    { HashToHex(Ones(k)) : k \in {0, DefaultThreshold, 2 * DefaultThreshold, HashBits} }

\* Lists of videos, images without a fingerprint and, when the library is there,
\* fingerprinted images.
ClusterInputs(avail) ==
    LET options == { << "video", None >>, << "image", None >> }
                      \cup (IF avail THEN { << "image", h >> : h \in Fingerprints } ELSE {})
    IN { [i \in 1..Len(os) |-> Record(i, os[i][1], i, os[i][2])] : os \in Lists(options) }

Thresholds == {0, DefaultThreshold, 2 * DefaultThreshold}

InitLists(inputs) ==
    /\ fs = Tree({})
    /\ locked = {}
    /\ unreadable = {}
    /\ fs0 = fs
    /\ records = {}
    /\ last = [op |-> "none"]
    /\ input_files \in inputs
    /\ threads = << >>
    /\ nops = 0

InitGroup == available = TRUE /\ InitLists(GroupInputs)

InitCluster == available \in BOOLEAN /\ InitLists(ClusterInputs(available))

\* add_duplicate_group_ids and find_duplicates on the list, as scan and main call them.
GroupExact ==
    /\ nops = 0
    /\ last' = [op |-> "group",
                duplicate_group_id |-> add_duplicate_group_ids(input_files),
                duplicates |-> find_duplicates(input_files)]
    /\ nops' = 1
    /\ UNCHANGED << fs, records, idle >>

\* find_near_duplicate_groups on the list.
Cluster(distance_threshold) ==
    /\ nops = 0
    /\ last' = [op |-> "cluster",
                distance_threshold |-> distance_threshold,
                labels |-> find_near_duplicate_groups(available, input_files,
                                                      distance_threshold)]
    /\ nops' = 1
    /\ UNCHANGED << fs, records, idle >>

NextGroup == GroupExact

NextCluster == \E distance_threshold \in Thresholds : Cluster(distance_threshold)

SpecGroup == InitGroup /\ [][NextGroup]_vars

SpecCluster == InitCluster /\ [][NextCluster]_vars

(***************************************************************************)
(* Scans of directories with other files, unreadable files and broken links *)
(***************************************************************************)

B_JPG_UPPER == << "b", ".", "J", "P", "G" >>
C_AVI == << "c", ".", "a", "v", "i" >>
N_TXT == << "n", ".", "t", "x", "t" >>
Z_JPG == << "z", ".", "j", "p", "g" >>

\* What may lie under the scan root: a.jpg, decodable (content 1) or not (content 4);
\* b.JPG, likewise or a link to a missing file; s/c.avi; n.txt.
ScanEntries ==
    { << Join(R, << A_JPG >>), File(1) >>, << Join(R, << A_JPG >>), File(4) >>,
      << Join(R, << B_JPG_UPPER >>), File(1) >>, << Join(R, << B_JPG_UPPER >>), File(4) >>,
      << Join(R, << B_JPG_UPPER >>), Link(Join(R, << Z_JPG >>)) >>,
      << Join(RS, << C_AVI >>), File(1) >>, << Join(RS, << C_AVI >>), File(2) >>,
      << Join(R, << N_TXT >>), File(1) >> }

\* The trees of these entries, and the tree in which the scan root is a regular file.
ScanTrees ==
    { Tree(items) : items \in { its \in SUBSET ScanEntries :
                                  \A x, y \in its : x[1] = y[1] => x = y } }
      \cup { Tree({ << R, File(1) >> }) }

InitScan ==
    /\ fs \in ScanTrees
    /\ locked = {}
    /\ unreadable \in SUBSET ({ Join(R, << A_JPG >>), Join(RS, << C_AVI >>) } \cap DOMAIN fs)
    /\ available \in BOOLEAN
    /\ fs0 = fs
    /\ records = {}
    /\ last = [op |-> "none"]
    /\ input_files = << >>
    /\ threads = << >>
    /\ nops = 0

NextScan ==
    \/ Main(R, None)
    \/ Scan(R, None)

SpecScan == InitScan /\ [][NextScan]_vars

(***************************************************************************)
(* app.py: move_file and undo_move with any arguments                      *)
(***************************************************************************)

X_A_JPG == Join(R, << << "x" >>, A_JPG >>)

\* file_path of a request: absent, a file or link, a directory, a path that is not there.
FilePaths(f) == {None, R, Join(D, << B_JPG >>)} \cup NonDirs(f)

\* original_path of an undo request: absent, a.jpg of the root, a.jpg of a directory
\* x that is not there.
OriginalPaths == {None, Join(R, << A_JPG >>), X_A_JPG}

\* (destination_folder, root_directory) of a move request, either of them absent or not.
FolderRequests == MoveRequests \cup { << None, R >>, << D, None >> }

NextRequests ==
    \/ \E p \in FilePaths(fs), q \in FolderRequests : MoveFile(p, q[1], q[2])
    \/ \E d \in FilePaths(fs), o \in OriginalPaths : UndoMove(d, o)

SpecRequests == Init /\ [][NextRequests]_vars

(***************************************************************************)
(* app.py: two move_file requests served at the same time                  *)
(*                                                                         *)
(* Each request runs move_file in a thread of its own; a step is one       *)
(* access to the file system.                                              *)
(***************************************************************************)

Threads == {1, 2}

\* A request that has been received and not yet looked at.
Received(file_path, destination_folder, root_directory) ==
    [pc |-> "validate", file_path |-> file_path,
     destination_folder |-> destination_folder, root_directory |-> root_directory,
     source_path |-> None, destination_file_path |-> None,
     stem |-> None, suffix |-> None, counter |-> 0, status |-> 0]

Answer(th, code) == [th EXCEPT !.pc = "done", !.status = code]

unthreaded == << locked, unreadable, available, fs0, records, last, input_files, nops >>

\* Argument checks, resolve(), exists(), is_file(), and the destination path.
Validate(t) ==
    /\ threads[t].pc = "validate"
    /\ LET th == threads[t]
           source_path == Resolve(fs, th.file_path)
           destination_path == Resolve(fs, th.destination_folder)
           root_path == Resolve(fs, th.root_directory)
       IN threads' = [threads EXCEPT ![t] =
              IF th.file_path = None \/ th.destination_folder = None
                    \/ th.root_directory = None
                THEN Answer(th, 400)
              ELSE IF ~Exists(fs, source_path) THEN Answer(th, 404)
              ELSE IF ~IsFile(fs, source_path) THEN Answer(th, 400)
              ELSE [th EXCEPT !.pc = "mkdir",
                              !.source_path = source_path,
                              !.destination_file_path =
                                  DestinationFor(source_path, root_path, destination_path)]]
    /\ UNCHANGED << fs, unthreaded >>

\* destination_file_path.parent.mkdir(parents=True, exist_ok=True)
Mkdir(t) ==
    /\ threads[t].pc = "mkdir"
    /\ LET th == threads[t]
           parent == Parent(th.destination_file_path)
       IN IF MkdirOk(fs, parent)
            THEN /\ fs' = MkdirParents(fs, parent)
                 /\ threads' = [threads EXCEPT ![t].pc = "check"]
            ELSE /\ fs' = fs
                 /\ threads' = [threads EXCEPT ![t] = Answer(th, 500)]
    /\ UNCHANGED unthreaded

\* if destination_file_path.exists(): stem, suffix, counter = 1
CheckConflict(t) ==
    /\ threads[t].pc = "check"
    /\ LET th == threads[t]
       IN threads' = [threads EXCEPT ![t] =
              IF Exists(fs, th.destination_file_path)
                THEN [th EXCEPT !.pc = "search",
                                !.stem = Stem(th.destination_file_path),
                                !.suffix = Suffix(th.destination_file_path),
                                !.counter = 1]
                ELSE [th EXCEPT !.pc = "move"]]
    /\ UNCHANGED << fs, unthreaded >>

\* One test of "while destination_file_path.exists()" and, if it holds, the loop body.
SearchFreeName(t) ==
    /\ threads[t].pc = "search"
    /\ LET th == threads[t]
       IN threads' = [threads EXCEPT ![t] =
              IF Exists(fs, th.destination_file_path)
                THEN [th EXCEPT !.destination_file_path =
                                    Join(Parent(th.destination_file_path),
                                         << SuffixedName(th.stem, th.counter, th.suffix) >>),
                                !.counter = th.counter + 1]
                ELSE [th EXCEPT !.pc = "move"]]
    /\ UNCHANGED << fs, unthreaded >>

\* shutil.move(str(source_path), str(destination_file_path)) and the response.
MoveAndAnswer(t) ==
    /\ threads[t].pc = "move"
    /\ LET th == threads[t]
       IN IF ~Has(fs, th.source_path)
            THEN /\ fs' = fs
                 /\ threads' = [threads EXCEPT ![t] = Answer(th, 500)]
            ELSE \E mv \in {ShutilMove(fs, locked, th.source_path,
                                        th.destination_file_path)} :
                    /\ fs' = mv.fs
                    /\ threads' = [threads EXCEPT ![t] =
                          Answer(th, IF mv.ok THEN 200
                                     ELSE IF mv.exc = "PermissionError" THEN 403
                                     ELSE 500)]
    /\ UNCHANGED unthreaded

\* Pairs of requests for different files: a.jpg of the root and a.jpg of s, which
\* both go to a.jpg of the review folder, free or taken; a.jpg and b.jpg of s, which
\* share the new directory s of the review folder.
ParallelCases ==
    LET ra == Join(R, << A_JPG >>)
        rsa == Join(RS, << A_JPG >>)
        rsb == Join(RS, << B_JPG >>)
        da == Join(D, << A_JPG >>)
        same == << Received(ra, D, R), Received(rsa, D, RS) >>
    IN { [tree |-> Tree({<< ra, File(1) >>, << rsa, File(2) >>}), requests |-> same],
         [tree |-> Tree({<< ra, File(1) >>, << rsa, File(1) >>}), requests |-> same],
         [tree |-> Tree({<< ra, File(1) >>, << rsa, File(2) >>, << da, File(3) >>}),
          requests |-> same],
         [tree |-> Tree({<< rsa, File(1) >>, << rsb, File(2) >>}),
          requests |-> << Received(rsa, D, R), Received(rsb, D, R) >>] }

InitParallel ==
    /\ \E c \in ParallelCases :
          /\ fs = c.tree
          /\ threads = c.requests
    /\ locked = {}
    /\ unreadable = {}
    /\ available = TRUE
    /\ fs0 = fs
    /\ records = {}
    /\ last = [op |-> "none"]
    /\ input_files = << >>
    /\ nops = 0

NextParallel ==
    \E t \in Threads :
        \/ Validate(t)
        \/ Mkdir(t)
        \/ CheckConflict(t)
        \/ SearchFreeName(t)
        \/ MoveAndAnswer(t)

SpecParallel == InitParallel /\ [][NextParallel]_vars

(***************************************************************************)
(* Properties of relocation and undo                                       *)
(***************************************************************************)

Files(f) == { p \in DOMAIN f : f[p].kind = "file" }

Range(q) == { q[i] : i \in 1..Len(q) }

MovedFile == last.op = "move_file" /\ last.status = 200
Relocated == last.op = "main" /\ last.relocated /\ ~last.move_results.raised

\* The name a file gets when its own name is taken: stem_k + suffix for some k >= 1.
IsSuffixedNameOf(name, source, limit) ==
    \E k \in 1..limit : name = SuffixedName(Stem(source), k, Suffix(source))

\* One move from file system g: source arrives at destination, which did not exist in
\* g; if the source's own name was taken in the destination directory, the
\* destination carries a numeric suffix.
FreshDestination(g, source, destination) ==
    /\ ~Exists(g, destination)
    /\ Exists(g, Join(Parent(destination), << Name(source) >>))
         => IsSuffixedNameOf(Name(destination), source, Cardinality(DOMAIN g))

\* C1: relocation never overwrites an existing file.  Whenever move_file or
\* move_duplicates moves a file, the final destination did not exist just before the
\* move, every other regular file keeps its path and content, the moved file arrives
\* unchanged, and a destination whose plain name was taken carries a numeric suffix.
C1_NeverOverwrites ==
    /\ MovedFile =>
         /\ FreshDestination(last.pre, last.original_path, last.destination)
         /\ \A p \in Files(last.pre) \ {last.original_path} :
               Has(fs, p) /\ fs[p] = last.pre[p]
         /\ Has(fs, last.destination)
         /\ fs[last.destination] = last.pre[last.original_path]
    /\ Relocated =>
         LET log == last.move_results.log
         IN /\ \A k \in 1..Len(log) :
                  FreshDestination(log[k].before, log[k].source, log[k].destination)
            /\ \A p \in Files(last.pre) \ { log[k].source : k \in 1..Len(log) } :
                  Has(fs, p) /\ fs[p] = last.pre[p]
            /\ \A k \in 1..Len(log) :
                  /\ Has(fs, log[k].destination)
                  /\ fs[log[k].destination] = last.pre[log[k].source]

\* C1 witness: a second same-named copy was moved into a directory that already held
\* the first; it got a suffixed name and the first is still there.
C1_Witness ==
    /\ MovedFile
    /\ Name(last.destination) # Name(last.original_path)
    /\ LET plain == Join(Parent(last.destination), << Name(last.original_path) >>)
       IN /\ plain \in Files(last.pre)
          /\ plain # last.original_path
          /\ plain \in Files(fs)
          /\ fs[plain] = fs[last.destination]

ContentsOf(f) == { f[p].content : p \in Files(f) }

\* C2: relocation and undo cause no data loss.  Every file content present before the
\* first operation is still present at some path.
C2_NoDataLoss == ContentsOf(fs0) \subseteq ContentsOf(fs)

UndoneAtOnce ==
    /\ last.op = "undo_move"
    /\ last.status = 200
    /\ last.prev.op = "move_file"
    /\ last.prev.status = 200
    /\ last.destination_path = last.prev.destination
    /\ last.original_path = last.prev.original_path

\* C3: move/undo round trip.  A successful move_file followed at once by a successful
\* undo_move with the returned destination and original_path leaves the original path
\* with the content it had before the move, and no file at the destination.
C3_RoundTrip ==
    UndoneAtOnce =>
        /\ Has(fs, last.original_path)
        /\ fs[last.original_path] = last.prev.pre[last.original_path]
        /\ ~Has(fs, last.destination_path)
        /\ ~Exists(fs, last.destination_path)

\* C3 witness: the round trip of a move that had applied a collision suffix.
C3_Witness ==
    /\ UndoneAtOnce
    /\ Name(last.destination_path) # Name(last.original_path)
    /\ fs[last.original_path].kind = "file"

\* The lexicographically smallest path of a group.
Smallest(paths) ==
    CHOOSE p \in Range(paths) : \A q \in Range(paths) : q = p \/ PathLess(p, q)

NonOriginals(paths) == Range(paths) \ {Smallest(paths)}

RECURSIVE SumNonOriginals(_, _)
SumNonOriginals(duplicates, k) ==
    IF k = 0 THEN 0
    ELSE SumNonOriginals(duplicates, k - 1) + (Len(duplicates[k].paths) - 1)

\* C4: move_duplicates never moves the original.  After a relocation without errors,
\* the lexicographically smallest path of every group is where and what it was, every
\* other member has left its path, and the moved count is the sum of (group size - 1).
C4_OriginalStays ==
    (Relocated /\ last.move_results.errors = << >>) =>
        /\ \A k \in 1..Len(last.duplicates) :
              LET paths == last.duplicates[k].paths
              IN /\ Has(fs, Smallest(paths))
                 /\ fs[Smallest(paths)] = last.pre[Smallest(paths)]
                 /\ \A p \in NonOriginals(paths) : ~Has(fs, p)
        /\ last.move_results.num_duplicates_moved =
              SumNonOriginals(last.duplicates, Len(last.duplicates))

\* C5: move_duplicates changes nothing but the non-original members of the groups it
\* was given.  Every other path (unique files, originals, members of near-duplicate
\* clusters only) keeps its entry.
C5_OnlyNonOriginalsMove ==
    Relocated =>
        \A p \in DOMAIN last.pre :
            (\A k \in 1..Len(last.duplicates) : p \notin NonOriginals(last.duplicates[k].paths))
                => Has(fs, p) /\ fs[p] = last.pre[p]

Attempted == { last.move_results.errors[i].path : i \in 1..Len(last.move_results.errors) }
                 \cup { last.move_results.log[i].path : i \in 1..Len(last.move_results.log) }

GroupOf(p) == CHOOSE k \in 1..Len(last.duplicates) : p \in Range(last.duplicates[k].paths)

\* p is processed before q: an earlier group, or the same group and a smaller path.
ProcessedBefore(p, q) ==
    \/ GroupOf(p) < GroupOf(q)
    \/ GroupOf(p) = GroupOf(q) /\ PathLess(p, q)

InProcessingOrder(entries) ==
    \A i, j \in 1..Len(entries) : i < j => ProcessedBefore(entries[i].path, entries[j].path)

\* C6: a failure on one file does not abort relocation.  On return every non-original
\* file has been attempted exactly once, each attempt counted as moved or recorded as
\* one error, errors in processing order, and moved + errors is the number of
\* non-original files.
C6_FailureDoesNotAbort ==
    Relocated =>
        LET res == last.move_results
        IN /\ res.num_duplicates_moved = Len(res.log)
           /\ res.num_duplicates_moved + Len(res.errors) =
                 SumNonOriginals(last.duplicates, Len(last.duplicates))
           /\ Attempted = UNION { NonOriginals(last.duplicates[k].paths) :
                                    k \in 1..Len(last.duplicates) }
           /\ InProcessingOrder(res.errors)
           /\ InProcessingOrder(res.log)
           /\ \A i \in 1..Len(res.errors), j \in 1..Len(res.log) :
                 res.errors[i].path # res.log[j].path

\* C6 witness: a file that could not be moved, and a later file of the run that was.
C6_Witness ==
    /\ Relocated
    /\ \E i \in 1..Len(last.move_results.errors), j \in 1..Len(last.move_results.log) :
          ProcessedBefore(last.move_results.errors[i].path, last.move_results.log[j].path)

IsSorted(paths) == \A i \in 1..(Len(paths) - 1) : PathLess(paths[i], paths[i + 1])

ScanAnswered == last.op = "scan" /\ last.response.status = 200

\* C10: the paths of every group that find_duplicates produces, and the
\* 'files' list of every group the scan endpoint reports, are in lexicographic order.
C10_GroupsListedSorted ==
    /\ ScanAnswered =>
         \A k \in 1..Len(last.response.duplicates) :
            IsSorted(last.response.duplicates[k].files)
    /\ last.op = "main" =>
         \A k \in 1..Len(last.duplicates) : IsSorted(last.duplicates[k].paths)

(***************************************************************************)
(* Properties of exact grouping and clustering                             *)
(***************************************************************************)

SameHash(i) == { j \in 1..Len(input_files) : input_files[j].hash = input_files[i].hash }

\* C8: exact grouping is a partition by content digest.  duplicate_group_id is the
\* number of records that share the record's digest; find_duplicates has exactly the
\* digests of two or more records, each once, each with all paths of that digest
\* and no others.
C8_ExactPartition ==
    last.op = "group" =>
        LET n == Len(input_files)
            dups == last.duplicates
            repeated == { input_files[i].hash : i \in { i \in 1..n : Cardinality(SameHash(i)) >= 2 } }
        IN /\ \A i \in 1..n : last.duplicate_group_id[i] = Cardinality(SameHash(i))
           /\ { dups[k].key : k \in 1..Len(dups) } = repeated
           /\ Len(dups) = Cardinality(repeated)
           /\ \A k \in 1..Len(dups) :
                 /\ Range(dups[k].paths) =
                       { input_files[i].file_path :
                           i \in { i \in 1..n : input_files[i].hash = dups[k].key } }
                 /\ Len(dups[k].paths) = Cardinality(Range(dups[k].paths))

\* C8 witness: a grouped list with two duplicate groups and a unique file.
C8_Witness ==
    /\ last.op = "group"
    /\ Len(last.duplicates) >= 2
    /\ \E i \in 1..Len(input_files) : last.duplicate_group_id[i] = 1

Fingerprinted == { i \in 1..Len(input_files) : IsFingerprinted(input_files[i]) }

\* The Hamming distance of the fingerprints of records i and j.
Distance(i, j) == hamming_distance(TRUE, input_files[i].phash, input_files[j].phash)[1]

\* The pairs of distinct fingerprinted images within the threshold of each other.
Near(T) == { e \in Fingerprinted \X Fingerprinted : e[1] # e[2] /\ Distance(e[1], e[2]) <= T }

\* The images reached from S by chains of at most n near pairs.
RECURSIVE Reach(_, _, _)
Reach(S, near, n) ==
    IF n = 0 THEN S
    ELSE Bind(S \cup { j \in Fingerprinted : \E i \in S : << i, j >> \in near },
              LAMBDA next : Reach(next, near, n - 1))

\* The chain-connected classes of the fingerprinted images.
Components(T) ==
    Bind(Near(T), LAMBDA near :
      { Reach({i}, near, Cardinality(Fingerprinted)) : i \in Fingerprinted })

LabelOf(i) == last.labels[input_files[i].file_path]

Clustered == last.op = "cluster" /\ available

\* C7: clustering is the transitive closure of nearness.  Two fingerprinted images
\* have the same label other than 'unique' exactly when a chain of images with
\* consecutive distances within the threshold connects them, and an image
\* connected to no other is 'unique'.
C7_TransitiveClosure ==
    Clustered =>
        Bind(Components(last.distance_threshold), LAMBDA components :
          /\ DOMAIN last.labels = { input_files[i].file_path : i \in Fingerprinted }
          /\ \A i, j \in Fingerprinted :
                i # j =>
                   ((LabelOf(i) = LabelOf(j) /\ LabelOf(i) # Unique)
                      <=> \E c \in components : i \in c /\ j \in c)
          /\ \A i \in Fingerprinted : {i} \in components => LabelOf(i) = Unique)

\* C7 witness: A, B, C in one cluster with A near B, B near C and A not near C.
C7_Witness ==
    /\ Clustered
    /\ \E a, b, c \in Fingerprinted :
          /\ Distance(a, b) <= last.distance_threshold
          /\ Distance(b, c) <= last.distance_threshold
          /\ Distance(a, c) > last.distance_threshold
          /\ LabelOf(a) # Unique
          /\ LabelOf(a) = LabelOf(b)
          /\ LabelOf(b) = LabelOf(c)

Earliest(c) == CHOOSE i \in c : \A j \in c : i <= j

\* C9: the k clusters of two or more images are labelled nd_group_1 .. nd_group_k,
\* and a cluster whose earliest member comes first in the input has the smaller number.
C9_NumberedByEarliestMember ==
    Clustered =>
        Bind({ c \in Components(last.distance_threshold) : Cardinality(c) >= 2 },
             LAMBDA clusters :
          /\ { LabelOf(i) : i \in Fingerprinted } \ {Unique} =
                { GroupLabel(m) : m \in 1..Cardinality(clusters) }
          /\ \A c \in clusters :
                LabelOf(Earliest(c)) =
                   GroupLabel(1 + Cardinality({ d \in clusters : Earliest(d) < Earliest(c) })))

\* C9 witness: two clusters, the first of them joined only through a later image,
\* so that its union-find root is not its earliest member.
C9_Witness ==
    /\ Clustered
    /\ \E a, b, c, d \in Fingerprinted :
          /\ a < b /\ b < c
          /\ Distance(a, c) <= last.distance_threshold
          /\ Distance(b, c) <= last.distance_threshold
          /\ Distance(a, b) > last.distance_threshold
          /\ LabelOf(a) = GroupLabel(1)
          /\ LabelOf(d) = GroupLabel(2)

(***************************************************************************)
(* Properties of placement                                                 *)
(***************************************************************************)

\* The folder move_duplicates relocates into: the one given, or duplicates_review
\* next to the scan root.
ReviewFolder ==
    IF last.destination # None THEN Resolve(last.pre, last.destination)
    ELSE Join(Parent(Resolve(last.pre, last.directory)), << DuplicatesReview >>)

\* A file that was at source arrives, under folder, at the place it had under root,
\* or directly under folder when it was not under root; its name is its own or its
\* own with a numeric suffix, and the directories above it exist in g.
PlacedUnder(g, source, root, folder, destination) ==
    /\ \/ Name(destination) = Name(source)
       \/ IsSuffixedNameOf(Name(destination), source, Cardinality(DOMAIN g))
    /\ IF Len(root) < Len(source) /\ \A n \in 1..Len(root) : source[n] = root[n]
         THEN Parent(destination) =
                 folder \o [n \in 1..(Len(source) - Len(root) - 1) |-> source[Len(root) + n]]
         ELSE Parent(destination) = folder
    /\ \A d \in Prefixes(Parent(destination)) : Has(g, d) /\ g[d].kind = "dir"
    /\ Has(g, destination) /\ g[destination].kind = "file"

\* C11: relocation preserves the path relative to the scan root.  A moved file that
\* was at root/r is at destination/r, up to a collision suffix on its name and with
\* the directories above it created; a file that was not under the root is
\* directly under the destination, under its file name.
C11_RelativePathKept ==
    /\ MovedFile =>
         PlacedUnder(fs, last.original_path, Resolve(last.pre, last.root_directory),
                     Resolve(last.pre, last.destination_folder), last.destination)
    /\ Relocated =>
         \A k \in 1..Len(last.move_results.log) :
            PlacedUnder(fs, last.move_results.log[k].source,
                        Resolve(last.pre, last.directory), ReviewFolder,
                        last.move_results.log[k].destination)

\* C11 witness: a file from outside the root has just been put directly under the
\* destination, where an earlier move created the subdirectory s for a.jpg of
\* root/s.
C11_Witness ==
    /\ MovedFile
    /\ ~IsPrefix(Resolve(last.pre, last.root_directory), last.original_path)
    /\ Parent(last.destination) = Resolve(last.pre, last.destination_folder)
    /\ \E dest \in {D, RS} :
          /\ ~Has(fs0, Join(dest, << << "s" >> >>))
          /\ Join(dest, << << "s" >>, A_JPG >>) \in Files(fs)

(***************************************************************************)
(* Properties of the scan                                                  *)
(***************************************************************************)

UpperLower == { << "G", "g" >>, << "J", "j" >>, << "N", "n" >>, << "P", "p" >> }

EqualsIgnoringCase(s, t) ==
    /\ Len(s) = Len(t)
    /\ \A i \in 1..Len(s) : s[i] = t[i] \/ << s[i], t[i] >> \in UpperLower

HasExtension(p, extensions) == \E e \in extensions : EqualsIgnoringCase(Suffix(p), e)

\* The entries below the root that are media by extension ...
MediaUnder(f, root) ==
    { p \in DOMAIN f : /\ f[p].kind # "dir"
                       /\ Len(p) > Len(root)
                       /\ IsPrefix(root, p)
                       /\ HasExtension(p, IMAGE_EXTENSIONS \cup VIDEO_EXTENSIONS) }

\* ... and those of them whose content can be read.
Hashable(f, root) == { p \in MediaUnder(f, root) : p \notin unreadable /\ IsFile(f, p) }

Scanned == last.op = "main"

RecordsOf(p) == { i \in 1..Len(last.files_data) : last.files_data[i].file_path = p }

\* C12: scan_directory emits exactly one record for every file under the root with a
\* media extension, in any letter case, whose content could be hashed, and none for
\* any other file; a file that cannot be read is the only one dropped; an image
\* without a fingerprint is emitted with an empty one, is 'unique' for the
\* clusterer and counts in exact grouping.
C12_OneRecordPerMediaFile ==
    Scanned =>
        LET records_ == last.files_data
            n == Len(records_)
        IN /\ { records_[i].file_path : i \in 1..n } = Hashable(last.pre, last.directory)
           /\ n = Cardinality(Hashable(last.pre, last.directory))
           /\ \A i \in 1..n :
                 LET r == records_[i]
                     content == last.pre[Resolve(last.pre, r.file_path)].content
                     same == { j \in 1..n : records_[j].hash = r.hash }
                 IN /\ r.hash = Sha256(content)
                    /\ r.file_type = IF HasExtension(r.file_path, IMAGE_EXTENSIONS)
                                       THEN "image" ELSE "video"
                    /\ last.duplicate_group_id[i] = Cardinality(same)
                    /\ (r.file_type = "image" /\ (~available \/ AverageHash(content) = None))
                         => /\ r.phash = None
                            /\ last.near_duplicate_group_id[i] = Unique
                            /\ Cardinality(same) >= 2 =>
                                  \E k \in 1..Len(last.duplicates) :
                                     /\ last.duplicates[k].key = r.hash
                                     /\ r.file_path \in Range(last.duplicates[k].paths)

\* C12 witness: a scan that met a file that is no media, a media file it could not
\* read and an image spelled .JPG that could not be decoded, which is in an exact
\* group all the same.
C12_Witness ==
    /\ Scanned
    /\ available
    /\ Join(R, << N_TXT >>) \in DOMAIN last.pre
    /\ MediaUnder(last.pre, last.directory) \cap unreadable # {}
    /\ \E i \in RecordsOf(Join(R, << B_JPG_UPPER >>)) :
          /\ last.files_data[i].phash = None
          /\ last.duplicate_group_id[i] = 2

ValidRoot == IsDir(last.pre, last.directory)

NothingToScan == ValidRoot /\ Hashable(last.pre, last.directory) = {}

\* C13: a scan of a valid directory without a processable media file gives an
\* empty result that is no error (no records, no groups, a message that says so);
\* a scan whose root is missing or no directory fails, with no records, no groups
\* and no report; the two outcomes differ.
C13_EmptyIsNotInvalid ==
    /\ last.op = "scan" =>
         /\ NothingToScan =>
               /\ last.response.status = 200
               /\ DOMAIN last.response = {"status", "duplicates", "message"}
               /\ last.response.duplicates = << >>
               /\ last.response.message = NoMediaFound
         /\ ~ValidRoot =>
               /\ last.response.status >= 400
               /\ DOMAIN last.response = {"status", "error"}
    /\ last.op = "main" =>
         /\ NothingToScan =>
               /\ last.exit_code = 0
               /\ last.report = NoFilesFound
         /\ ~ValidRoot =>
               /\ last.exit_code = 1
               /\ last.report = NoReport
         /\ (NothingToScan \/ ~ValidRoot) =>
               /\ last.files_data = << >>
               /\ last.duplicates = << >>
               /\ ~last.relocated
               /\ fs = last.pre

\* C13 witness: the root holds a file that is no media and a media file that cannot
\* be read, and the scan endpoint has answered that there is nothing.
C13_Witness ==
    /\ last.op = "scan"
    /\ NothingToScan
    /\ Join(R, << N_TXT >>) \in DOMAIN last.pre
    /\ MediaUnder(last.pre, last.directory) # {}
    /\ last.response.status = 200

(***************************************************************************)
(* Properties of collision handling                                        *)
(***************************************************************************)

\* The k-th candidate for a file named like source in the directory of destination.
Candidate(source, destination, k) ==
    Join(Parent(destination), << SuffixedName(Stem(source), k, Suffix(source)) >>)

\* The number k of the suffix the destination carries, 0 when it carries the plain name.
SuffixNumber(g, source, destination) ==
    IF Name(destination) = Name(source) THEN 0
    ELSE CHOOSE k \in 1..(Cardinality(DOMAIN g) + 1) :
            k = Cardinality(DOMAIN g) + 1 \/ destination = Candidate(source, destination, k)

\* From file system g the file named like source went to destination: the plain name
\* if it was free, else stem_k + suffix for the least k >= 1 that was free; the search
\* met at most as many taken names as the directory has entries.
FirstFreeName(g, source, destination) ==
    LET plain == Join(Parent(destination), << Name(source) >>)
        k == SuffixNumber(g, source, destination)
    IN /\ ~Exists(g, destination)
       /\ ~Exists(g, plain) <=> k = 0
       /\ k > 0 =>
            /\ destination = Candidate(source, destination, k)
            /\ \A j \in 1..(k - 1) : Exists(g, Candidate(source, destination, j))
            /\ k <= Cardinality(Children(g, Parent(destination)))

\* C14: collision resolution picks the first free suffixed name.  When the target
\* exists, the file goes to stem_k + extension for the smallest k >= 1 whose name
\* is free, the number always joined to the stem of the target itself, and the
\* search ends after at most as many steps as the directory has entries.
C14_FirstFreeName ==
    /\ MovedFile => FirstFreeName(last.pre, last.original_path, last.destination)
    /\ Relocated =>
         \A i \in 1..Len(last.move_results.log) :
            FirstFreeName(last.move_results.log[i].before, last.move_results.log[i].source,
                          last.move_results.log[i].destination)

\* C14 witness: the plain name and stem_1 were both taken and the file went to stem_2.
C14_Witness ==
    /\ MovedFile
    /\ Exists(last.pre, Join(Parent(last.destination), << Name(last.original_path) >>))
    /\ Exists(last.pre, Candidate(last.original_path, last.destination, 1))
    /\ last.destination = Candidate(last.original_path, last.destination, 2)
    /\ last.destination \in Files(fs)

(***************************************************************************)
(* Properties of requests served at the same time                          *)
(***************************************************************************)

BothAnswered == threads # << >> /\ \A t \in Threads : threads[t].pc = "done"

\* C15: two move_file requests may be served at the same time.  However their steps
\* interleave, both are answered with success, at two different destinations, and
\* each file is at its destination with the content it had.
C15_ParallelMovesKeepBoth ==
    BothAnswered =>
        /\ \A t \in Threads : threads[t].status = 200
        /\ threads[1].destination_file_path # threads[2].destination_file_path
        /\ \A t \in Threads :
              /\ Has(fs, threads[t].destination_file_path)
              /\ fs[threads[t].destination_file_path] = fs0[threads[t].source_path]

(***************************************************************************)
(* Properties of refused requests                                          *)
(***************************************************************************)

NotARegularFile(f, p) ==
    \/ Resolve(f, p) \notin DOMAIN f
    \/ f[Resolve(f, p)].kind # "file"

\* The status with which a request on path p is refused before anything is done.
Refusal(f, p) ==
    IF p = None THEN 400
    ELSE IF Resolve(f, p) \notin DOMAIN f THEN 404
    ELSE 400

\* C16: the failure modes of undo mirror those of the move.  undo_move and move_file
\* always answer with a status; when an argument is missing, or the file to move
\* (back) is not there or is no regular file, the answer is the error (400, 404,
\* 400) and the file system is as it was: no directory made, no file moved,
\* made or removed.
C16_RefusedUndoChangesNothing ==
    /\ last.op = "undo_move" =>
         /\ last.status \in {200, 400, 403, 404, 500}
         /\ (last.destination_path = None \/ last.original_path = None
               \/ NotARegularFile(last.pre, last.destination_path)) =>
                /\ last.status =
                      IF last.original_path = None /\ last.destination_path # None
                        THEN 400 ELSE Refusal(last.pre, last.destination_path)
                /\ fs = last.pre
    /\ last.op = "move_file" =>
         /\ last.status \in {200, 400, 403, 404, 500}
         /\ (last.file_path = None \/ last.destination_folder = None
               \/ last.root_directory = None
               \/ NotARegularFile(last.pre, last.file_path)) =>
                /\ last.status =
                      IF (last.destination_folder = None \/ last.root_directory = None)
                            /\ last.file_path # None
                        THEN 400 ELSE Refusal(last.pre, last.file_path)
                /\ fs = last.pre

\* C16 witness: an undo for a file that is no longer at its destination, to an
\* original path whose directory is gone, was refused, and the directory was not made.
C16_Witness ==
    /\ last.op = "undo_move"
    /\ last.destination_path # None
    /\ last.original_path = X_A_JPG
    /\ last.status = 404
    /\ ~Has(fs, Parent(X_A_JPG))
    /\ fs = last.pre

(***************************************************************************)
(* Properties of a repeated relocation                                     *)
(***************************************************************************)

\* The readable media files below the root whose content has digest h.
CarriersOf(f, root, h) ==
    { p \in Hashable(f, root) : compute_file_hash(f, unreadable, p) = h }

RelocatedOutside ==
    /\ Relocated
    /\ last.move_results.errors = << >>
    /\ ~IsPrefix(Resolve(last.pre, last.directory), ReviewFolder)

\* C17: relocation is safe to repeat.  After a scan and a relocation without errors
\* into a folder outside the scan root, every digest the scan met is carried by
\* exactly one file below the root; scanning again finds no group, and relocating
\* again moves nothing and leaves the file system as it is.
C17_RepeatedRelocationMovesNothing ==
    RelocatedOutside =>
        /\ \A i \in 1..Len(last.files_data) :
              Cardinality(CarriersOf(fs, Resolve(last.pre, last.directory),
                                     last.files_data[i].hash)) = 1
        /\ \A again \in MainOutcomes(fs, locked, unreadable, available,
                                     last.directory, last.destination) :
              /\ again.duplicates = << >>
              /\ again.move_results.num_duplicates_moved = 0
              /\ again.fs = fs

====
